---- MODULE Spec2Model ----
(***************************************************************************)
(* Model of the p2cord voice core (src-tauri/src/services/media):          *)
(*   - the session controller task of p2d::init (p2d/mod.rs),              *)
(*   - the conference manager join_conference / leave_conference           *)
(*     (media/mod.rs),                                                     *)
(*   - the capture callback and sender task of start_audio_capture and     *)
(*     the output callback of start_audio_playback (p2d/audio.rs).         *)
(* Time is counted in ticks of 500 ms; every duration of the code is given *)
(* in ticks.                                                               *)
(***************************************************************************)
EXTENDS Integers, Sequences, FiniteSets, TLC

(* ------------------------------ bounds --------------------------------- *)
\* peer connections one controller task may create
MaxCycles == 2
\* signaling frames the environment hands to one controller
MaxRx == 3

(* ------------------------ durations, in ticks -------------------------- *)
HeartbeatTicks == 4
TimeoutCheckTicks == 2
PeerTimeoutTicks == 12
DrainTicks == 1
RetryTicks == 6
BarrierTicks == 2

(* ------------------------------ identities ----------------------------- *)
\* controller tasks: two peers of a room, or the successive sessions of one client
Inst == {1, 2, 3}
\* the two clients of a room
Peers == {1, 2}
\* client ids are strings; a string is modelled as a tuple of character codes
IdPool == { <<1, 5>>, <<1, 7>>, <<2, 0>> }
NoId == << >>
Cands == {"c1", "c2"}

\* Rust's String ordering: bytewise lexicographic, a proper prefix is smaller
RECURSIVE StrGreater(_, _)
StrGreater(a, b) ==
    IF a = << >> THEN FALSE
    ELSE IF b = << >> THEN TRUE
    ELSE IF Head(a) # Head(b) THEN Head(a) > Head(b)
    ELSE StrGreater(Tail(a), Tail(b))

VARIABLES
    \* ---- controller task of p2d::init, one per instance
    pc,                     \* position of the task
    local_client_id,
    running_flag,           \* session-wide flag (ActiveSession.running_flag)
    cycle,                  \* number of the current cycle (peer connections created)
    open_pcs,               \* cycles whose peer connection is created and not closed
    cycle_flags,            \* cycles whose audio_cycle_flag is set
    capture_threads,        \* cycles whose capture thread still holds its stream
    sleep_left,             \* ticks left of the task's current sleep
    heartbeat_interval,     \* ticks to the next heartbeat tick
    peer_timeout_check,     \* ticks to the next timeout scan
    remote_description_set,
    pending_candidates,
    did_offer,
    should_reset_pc,
    peer_last_ping,         \* remote id -> ticks since its last Ping
    remote_desc,            \* the peer connection has a remote description
    ws_open,                \* the task holds an open signaling socket
    inbox,                  \* frames the server handed to the socket, not yet read
    rx_count,               \* frames the environment has handed to the task
    offers_sent,            \* Offer frames sent in the current cycle
    present,                \* remote ids with a peer-joined not yet followed by peer-left
    ice_rx,                 \* local ICE candidates queued by the peer session
    out,                    \* each task's last step since the last tick: [in, st0, did]
    lib_faults              \* whether calls on WebRTC, the devices and the server may fail

ctlVars == << pc, local_client_id, running_flag, cycle, open_pcs, cycle_flags,
              capture_threads, sleep_left, heartbeat_interval, peer_timeout_check,
              remote_description_set, pending_candidates, did_offer, should_reset_pc,
              peer_last_ping, remote_desc, ws_open, inbox, rx_count,
              offers_sent, present, ice_rx, out, lib_faults >>

VARIABLES
    \* ---- conference manager (media/mod.rs)
    active_session,         \* MediaState.active_session: 0 for None, else the instance
    call_pc,                \* position of each caller of join_conference / leave_conference
    call_sleep,             \* ticks left of the caller's 1 s sleep
    call_session,           \* the session a caller took out of the slot, 0 for none
    predecessor,            \* for each session, the session it replaced, 0 for none
    \* ---- capture callback and sender task (audio.rs, start_audio_capture)
    channels,               \* channel count of the input stream configuration
    cap_flag,               \* the running_flag handed to start_audio_capture
    is_muted,
    cap_buffer,             \* accumulation buffer, as runs <<amplitude, samples>>
    vad_hangover_frames,
    was_talking,
    tx,                     \* packets queued for the sender task
    vad_tx,                 \* transitions queued for the controller
    sender,                 \* the sender task: "running" or "ended"
    muted_seen,             \* ghost: a callback ran since mute was last set
    cap_out,                \* what the last capture-side step did
    \* ---- output callback (audio.rs, start_audio_playback)
    is_deafened,
    device_sample_rate,     \* config.sample_rate of the output stream
    rx,                     \* decoded packets not yet fetched by the callback
    play_rx_count,          \* rx_count: packets fetched so far
    play_buffer,            \* the playback queue, as runs <<value, samples>>
    fractional_pos,         \* numerator of fractional_pos over device_sample_rate
    buffering,
    underruns,              \* ghost: how often playback fell back to buffering
    play_out                \* what the last output callback did

mgrVars == << active_session, call_pc, call_sleep, call_session, predecessor >>
capVars == << channels, cap_flag, is_muted, cap_buffer, vad_hangover_frames,
              was_talking, tx, vad_tx, sender, muted_seen, cap_out >>
playVars == << is_deafened, device_sample_rate, rx, play_rx_count, play_buffer,
               fractional_pos, buffering, underruns, play_out >>

vars == << ctlVars, mgrVars, capVars, playVars >>

(* ------------------------------ helpers -------------------------------- *)
Min(a, b) == IF a < b THEN a ELSE b

EmptyTable == [x \in {} |-> 0]
TableInsert(t, id) == [x \in (DOMAIN t) \cup {id} |-> IF x = id THEN 0 ELSE t[x]]
TableRemove(t, id) == [x \in (DOMAIN t) \ {id} |-> t[x]]
\* the ages grow with time; an age above the timeout is not told apart further
TableAge(t) == [x \in DOMAIN t |-> Min(t[x] + 1, PeerTimeoutTicks + 1)]

\* every order in which a HashMap may iterate over the keys S
RECURSIVE Orders(_)
Orders(S) ==
    IF S = {} THEN { << >> }
    ELSE UNION { { <<x>> \o r : r \in Orders(S \ {x}) } : x \in S }

\* signaling frames; client_id is NoId and body 0 where the variant has no such field
Msg(t, id, b) == [type |-> t, client_id |-> id, body |-> b, room_id |-> 1]
\* what a step does, in order: events emitted, frames sent, calls on the peer session
Emit(name, id, b) == [k |-> "emit", n |-> name, a |-> id, b |-> b, ok |-> TRUE]
Sent(t, id, b) == [k |-> "send", n |-> t, a |-> id, b |-> b, ok |-> TRUE]
Call(name, arg, ok) == [k |-> "call", n |-> name, a |-> NoId, b |-> arg, ok |-> ok]

\* results a call on the WebRTC library, an audio device or the server may give
Outcomes == IF lib_faults THEN {TRUE, FALSE} ELSE {TRUE}

\* the ghost of the frontend: peer-joined adds the id, peer-left removes it
RECURSIVE Shown(_, _)
Shown(S, did) ==
    IF did = << >> THEN S
    ELSE LET e == Head(did)
             T == IF e.k = "emit" /\ e.n = "peer-joined" THEN S \cup {e.a}
                  ELSE IF e.k = "emit" /\ e.n = "peer-left" THEN S \ {e.a}
                  ELSE S
         IN Shown(T, Tail(did))

\* the frames a step wrote to ws_write, in order
RECURSIVE Frames(_)
Frames(did) ==
    IF did = << >> THEN << >>
    ELSE LET e == Head(did)
         IN (IF e.k = "send" THEN << Msg(e.n, e.a, e.b) >> ELSE << >>) \o Frames(Tail(did))

RECURSIVE CountOf(_, _, _)
CountOf(did, k, n) ==
    IF did = << >> THEN 0
    ELSE (IF Head(did).k = k /\ Head(did).n = n THEN 1 ELSE 0) + CountOf(Tail(did), k, n)

(* ------------------ the controller task of p2d::init ------------------- *)

\* the variables of one signaling cycle (mod.rs:125-133) and of its peer session
LoopState(i) ==
    [ did_offer |-> did_offer[i],
      remote_description_set |-> remote_description_set[i],
      pending_candidates |-> pending_candidates[i],
      peer_last_ping |-> peer_last_ping[i],
      should_reset_pc |-> should_reset_pc[i],
      remote_desc |-> remote_desc[i],
      ice_rx |-> ice_rx[i] ]

Res(st, did) == [st |-> st, did |-> did]

\* role election without the comparison of the two ids
OfferPartAnyId(st, local, remote, ok) ==
    IF ~st.did_offer
    THEN Res([st EXCEPT !.did_offer = TRUE, !.ice_rx = IF ok THEN 1 ELSE @],
             << Call("create_offer", 0, ok) >>
                \o (IF ok THEN << Sent("Offer", NoId, 0) >> ELSE << >>))
    ELSE Res(st, << >>)

\* role election that does not look at did_offer
OfferPartRepeated(st, local, remote, ok) ==
    IF StrGreater(local, remote)
    THEN Res([st EXCEPT !.did_offer = TRUE, !.ice_rx = IF ok THEN 1 ELSE @],
             << Call("create_offer", 0, ok) >>
                \o (IF ok THEN << Sent("Offer", NoId, 0) >> ELSE << >>))
    ELSE Res(st, << >>)

\* role election and create_offer (mod.rs:169-182 and 208-220)
OfferPart(st, local, remote, ok) ==
    IF ~st.did_offer /\ StrGreater(local, remote)
    THEN Res([st EXCEPT !.did_offer = TRUE, !.ice_rx = IF ok THEN 1 ELSE @],
             << Call("create_offer", 0, ok) >>
                \o (IF ok THEN << Sent("Offer", NoId, 0) >> ELSE << >>))
    ELSE Res(st, << >>)

\* a Join handler that does not reply
OnJoinSilent(st, local, remote, ok) ==
    LET o == OfferPart(st, local, remote, ok)
    IN Res(o.st, << Emit("peer-joined", remote, 0) >> \o o.did)

OnJoin(st, local, remote, ok) ==
    LET o == OfferPart(st, local, remote, ok)
    IN Res(o.st, << Emit("peer-joined", remote, 0), Sent("Welcome", local, 0) >> \o o.did)

\* a Welcome handler that replies with a Welcome of its own
OnWelcomeEcho(st, local, remote, ok) ==
    LET o == OfferPart(st, local, remote, ok)
    IN Res(o.st, << Emit("peer-joined", remote, 0), Sent("Welcome", local, 0) >> \o o.did)

\* a Welcome handler without the role election
OnWelcomePassive(st, local, remote, ok) ==
    Res(st, << Emit("peer-joined", remote, 0) >>)

OnWelcome(st, local, remote, ok) ==
    LET o == OfferPart(st, local, remote, ok)
    IN Res(o.st, << Emit("peer-joined", remote, 0) >> \o o.did)

\* a Leave handler without the check of mod.rs:186
OnLeaveUnchecked(st, local, remote) ==
    Res([st EXCEPT !.peer_last_ping = TableRemove(@, remote),
                   !.should_reset_pc = TRUE],
        << Emit("peer-left", remote, 0) >>)

OnLeave(st, local, remote) ==
    IF remote = local THEN Res(st, << >>)
    ELSE Res([st EXCEPT !.peer_last_ping = TableRemove(@, remote),
                        !.should_reset_pc = TRUE],
             << Emit("peer-left", remote, 0) >>)

OnPing(st, remote) ==
    Res([st EXCEPT !.peer_last_ping = TableInsert(@, remote)], << >>)

\* a drain that applies the buffered candidates last to first
DrainPendingReversed(st) ==
    [ j \in 1..Len(st.pending_candidates) |->
        Call("add_ice_candidate",
             st.pending_candidates[Len(st.pending_candidates) + 1 - j], TRUE) ]

\* pending_candidates.drain(..): one add_ice_candidate per buffered candidate, in order
DrainPending(st) ==
    [ j \in 1..Len(st.pending_candidates) |->
        Call("add_ice_candidate", st.pending_candidates[j], TRUE) ]

\* an Answer handler that leaves the buffered candidates in the list
OnAnswerNoDrain(st, ok) ==
    IF ~ok THEN Res(st, << Call("set_remote_description", 2, FALSE) >>)
    ELSE Res([st EXCEPT !.remote_description_set = TRUE, !.remote_desc = TRUE],
             << Call("set_remote_description", 2, TRUE) >>)

OnAnswer(st, ok) ==
    IF ~ok THEN Res(st, << Call("set_remote_description", 2, FALSE) >>)
    ELSE Res([st EXCEPT !.remote_description_set = TRUE, !.remote_desc = TRUE,
                        !.pending_candidates = << >>],
             << Call("set_remote_description", 2, TRUE) >> \o DrainPending(st))

\* an Offer handler that goes on after a failed set_remote_description
OnOfferHopeful(st, ok, ok2) ==
    Res([st EXCEPT !.remote_description_set = TRUE, !.remote_desc = ok,
                   !.pending_candidates = << >>,
                   !.ice_rx = IF ok2 THEN 1 ELSE @],
        << Call("set_remote_description", 1, ok) >> \o DrainPending(st)
           \o << Call("create_answer", 0, ok2) >>
           \o (IF ok2 THEN << Sent("Answer", NoId, 0) >> ELSE << >>))

\* an Offer handler that sets the remote description and never answers
OnOfferMute(st, ok, ok2) ==
    IF ~ok THEN Res(st, << Call("set_remote_description", 1, FALSE) >>)
    ELSE Res([st EXCEPT !.remote_description_set = TRUE, !.remote_desc = TRUE,
                        !.pending_candidates = << >>],
             << Call("set_remote_description", 1, TRUE) >> \o DrainPending(st))

OnOffer(st, ok, ok2) ==
    IF ~ok THEN Res(st, << Call("set_remote_description", 1, FALSE) >>)
    ELSE Res([st EXCEPT !.remote_description_set = TRUE, !.remote_desc = TRUE,
                        !.pending_candidates = << >>,
                        !.ice_rx = IF ok2 THEN 1 ELSE @],
             << Call("set_remote_description", 1, TRUE) >> \o DrainPending(st)
                \o << Call("create_answer", 0, ok2) >>
                \o (IF ok2 THEN << Sent("Answer", NoId, 0) >> ELSE << >>))

\* an IceCandidate handler that applies the candidate at once
OnIceCandidateEager(st, candidate) ==
    Res(st, << Call("add_ice_candidate", candidate, TRUE) >>)

OnIceCandidate(st, candidate) ==
    IF st.remote_description_set
    THEN Res(st, << Call("add_ice_candidate", candidate, TRUE) >>)
    ELSE Res([st EXCEPT !.pending_candidates = Append(@, candidate)], << >>)

OnVoiceActivity(st, client_id, is_speaking) ==
    Res(st, << Emit("remote-voice-activity", client_id, is_speaking) >>)

\* the match on a parsed text frame (mod.rs:155-283)
OnMessage(st, local, f, ok, ok2) ==
    CASE f.type = "Join" -> OnJoin(st, local, f.client_id, ok)
      [] f.type = "Welcome" -> OnWelcome(st, local, f.client_id, ok)
      [] f.type = "Leave" -> OnLeave(st, local, f.client_id)
      [] f.type = "Ping" -> OnPing(st, f.client_id)
      [] f.type = "Answer" -> OnAnswer(st, ok)
      [] f.type = "Offer" -> OnOffer(st, ok, ok2)
      [] f.type = "IceCandidate" -> OnIceCandidate(st, f.body)
      [] f.type = "VoiceActivity" -> OnVoiceActivity(st, f.client_id, f.body)
      [] OTHER -> Res(st, << >>)

\* the signaling loop reads the frames fs one after the other (mod.rs:150-283), every
\* call on the peer session succeeding
RECURSIVE Handle(_, _, _)
Handle(st, local, fs) ==
    IF fs = << >> THEN Res(st, << >>)
    ELSE LET r == OnMessage(st, local, Head(fs), TRUE, TRUE)
             t == Handle(r.st, local, Tail(fs))
         IN Res(t.st, r.did \o t.did)

\* the timeout scan (mod.rs:334-343); the table is iterated in some order
TimedOut(t) == { x \in DOMAIN t : t[x] > PeerTimeoutTicks }

OnTimeoutCheck(st, order) ==
    Res([st EXCEPT !.should_reset_pc = (@ \/ order # << >>)],
        [ j \in 1..Len(order) |-> Emit("peer-left", order[j], 0) ])

SignalTypes == {"Join", "Welcome", "Leave", "Ping", "Answer", "Offer",
                "IceCandidate", "VoiceActivity"}

\* frames that are no parsed signaling message: a Close frame, a read error, the end
\* of the stream, and anything else (binary, ping, text that does not parse)
Frame(t) == Msg(t, NoId, 0)

\* ---- bookkeeping shared by the steps of instance i
Does(i, in, did) ==
    /\ present' = [present EXCEPT ![i] = Shown(@, did)]
    /\ offers_sent' = [offers_sent EXCEPT ![i] = @ + CountOf(did, "send", "Offer")]
    /\ out' = [out EXCEPT ![i] = [in |-> in, st0 |-> LoopState(i), did |-> did]]

SetLoopState(i, st) ==
    /\ did_offer' = [did_offer EXCEPT ![i] = st.did_offer]
    /\ remote_description_set' =
           [remote_description_set EXCEPT ![i] = st.remote_description_set]
    /\ pending_candidates' = [pending_candidates EXCEPT ![i] = st.pending_candidates]
    /\ peer_last_ping' = [peer_last_ping EXCEPT ![i] = st.peer_last_ping]
    /\ should_reset_pc' = [should_reset_pc EXCEPT ![i] = st.should_reset_pc]
    /\ remote_desc' = [remote_desc EXCEPT ![i] = st.remote_desc]
    /\ ice_rx' = [ice_rx EXCEPT ![i] = st.ice_rx]

loopVars == << did_offer, remote_description_set, pending_candidates, peer_last_ping,
               should_reset_pc, remote_desc, ice_rx >>
lifeVars == << local_client_id, running_flag, cycle, open_pcs, cycle_flags,
               capture_threads >>
timerVars == << sleep_left, heartbeat_interval, peer_timeout_check >>
netVars == << ws_open, inbox, rx_count >>
others == << mgrVars, capVars, playVars, lib_faults >>

(* --------------------------- the signaling server ---------------------- *)
\* whether the connection behind ws_read has ended: nothing arrives after that
Lost(j) == \E k \in 1..Len(inbox[j]) : inbox[j][k].type \in {"Close", "Error", "End"}

\* clients whose socket is registered with the server and still read
Reading(j) == ws_open[j] /\ pc[j] \in {"join", "select"} /\ ~Lost(j)

\* the server hands the frames fs that client `from` writes to the other clients of
\* the room, in order; `mine` is what is left unread on the socket of `from`
Deliver(from, mine, fs) ==
    inbox' = [ j \in Inst |->
                 IF j = from THEN mine
                 ELSE IF Reading(j) THEN inbox[j] \o fs ELSE inbox[j] ]

\* the server sees the socket of a client go and tells the room that the client left
Dropped(i) == Deliver(i, << >>, << Msg("Leave", local_client_id[i], 0) >>)

(* ------------------------ the steps of the task ------------------------ *)
\* mod.rs:137-147: the checks at the top of the signaling loop, which the task makes
\* right after it entered the loop and right after each branch of the select. The
\* frames `did` wrote to ws_write go to the server; the frames still unread when the
\* task leaves the loop are never read
LoopCheck(i, reset, unread, did) ==
    LET leave == ~running_flag[i] \/ reset IN
        /\ pc' = [pc EXCEPT ![i] = IF leave THEN "teardown" ELSE "select"]
        /\ Deliver(i, IF leave THEN << >> ELSE unread, Frames(did))

\* mod.rs:52-57: the top of the reconnection loop
LoopTop(i) ==
    /\ pc[i] = "top"
    /\ pc' = [pc EXCEPT ![i] = IF running_flag[i] THEN "create" ELSE "done"]
    /\ Does(i, Frame("top"), << >>)
    /\ UNCHANGED << loopVars, lifeVars, timerVars, netVars, others >>

\* mod.rs:61-96: P2DSession::new, the cycle flag, the capture thread
CreateSession(i) ==
    /\ pc[i] = "create"
    /\ cycle[i] < MaxCycles
    /\ \E ok \in Outcomes, cap_ok \in Outcomes :
        /\ IF ok
           THEN /\ cycle' = [cycle EXCEPT ![i] = @ + 1]
                /\ open_pcs' = [open_pcs EXCEPT ![i] = @ \cup {cycle[i] + 1}]
                /\ cycle_flags' = [cycle_flags EXCEPT ![i] = @ \cup {cycle[i] + 1}]
                /\ capture_threads' = [capture_threads EXCEPT ![i] =
                        IF cap_ok THEN @ \cup {cycle[i] + 1} ELSE @]
                /\ remote_desc' = [remote_desc EXCEPT ![i] = FALSE]
                /\ ice_rx' = [ice_rx EXCEPT ![i] = 0]
                /\ pc' = [pc EXCEPT ![i] = "connect"]
                /\ UNCHANGED sleep_left
           ELSE /\ ~cap_ok
                /\ pc' = [pc EXCEPT ![i] = "new_fail_sleep"]
                /\ sleep_left' = [sleep_left EXCEPT ![i] = RetryTicks]
                /\ UNCHANGED << cycle, open_pcs, cycle_flags, capture_threads,
                                remote_desc, ice_rx >>
        /\ Does(i, Frame("create"), << Call("new", 0, ok) >>)
    /\ UNCHANGED << local_client_id, running_flag, did_offer, remote_description_set,
                    pending_candidates, peer_last_ping, should_reset_pc,
                    heartbeat_interval, peer_timeout_check, netVars, others >>

\* mod.rs:67-68: the sleep after a failed P2DSession::new is over
NewFailWake(i) ==
    /\ pc[i] = "new_fail_sleep"
    /\ sleep_left[i] = 0
    /\ pc' = [pc EXCEPT ![i] = "top"]
    /\ Does(i, Frame("wake"), << >>)
    /\ UNCHANGED << loopVars, lifeVars, timerVars, netVars, others >>

\* mod.rs:99-111: connect_signaling succeeds: the server knows the socket
ConnectOk(i) ==
    /\ pc[i] = "connect"
    /\ ws_open' = [ws_open EXCEPT ![i] = TRUE]
    /\ inbox' = [inbox EXCEPT ![i] = << >>]
    /\ pc' = [pc EXCEPT ![i] = "join"]
    /\ Does(i, Frame("connected"), << >>)
    /\ UNCHANGED << loopVars, lifeVars, timerVars, rx_count, others >>

\* mod.rs:113-133: Join is sent and the state of the cycle is set up
SendJoin(i) ==
    LET did == << Sent("Join", local_client_id[i], 0) >> IN
    /\ pc[i] = "join"
    /\ remote_description_set' = [remote_description_set EXCEPT ![i] = FALSE]
    /\ pending_candidates' = [pending_candidates EXCEPT ![i] = << >>]
    /\ did_offer' = [did_offer EXCEPT ![i] = FALSE]
    /\ should_reset_pc' = [should_reset_pc EXCEPT ![i] = FALSE]
    /\ peer_last_ping' = [peer_last_ping EXCEPT ![i] = EmptyTable]
    /\ heartbeat_interval' = [heartbeat_interval EXCEPT ![i] = 0]
    /\ peer_timeout_check' = [peer_timeout_check EXCEPT ![i] = 0]
    /\ LoopCheck(i, FALSE, inbox[i], did)
    /\ present' = present
    /\ offers_sent' = [offers_sent EXCEPT ![i] = 0]
    /\ out' = [out EXCEPT ![i] = [in |-> Frame("join"), st0 |-> LoopState(i),
                                  did |-> did]]
    /\ UNCHANGED << lifeVars, sleep_left, remote_desc, ice_rx, ws_open, rx_count,
                    others >>

\* mod.rs:104-106: connect_signaling fails; the task sleeps 3 s with the connection open
ConnectFail(i) ==
    /\ pc[i] = "connect"
    /\ FALSE \in Outcomes
    /\ pc' = [pc EXCEPT ![i] = "conn_fail_sleep"]
    /\ sleep_left' = [sleep_left EXCEPT ![i] = RetryTicks]
    /\ Does(i, Frame("connect-failed"), << >>)
    /\ UNCHANGED << loopVars, lifeVars, heartbeat_interval, peer_timeout_check,
                    netVars, others >>

\* a retry after a failed connect that leaves the peer connection open
ConnFailWakeLeaky(i) ==
    /\ pc[i] = "conn_fail_sleep"
    /\ sleep_left[i] = 0
    /\ pc' = [pc EXCEPT ![i] = "top"]
    /\ Does(i, Frame("wake"), << >>)
    /\ UNCHANGED << loopVars, lifeVars, timerVars, netVars, others >>

\* mod.rs:107-109: after that sleep the connection is closed and the loop continues
ConnFailWake(i) ==
    /\ pc[i] = "conn_fail_sleep"
    /\ sleep_left[i] = 0
    /\ open_pcs' = [open_pcs EXCEPT ![i] = @ \ {cycle[i]}]
    /\ pc' = [pc EXCEPT ![i] = "top"]
    /\ Does(i, Frame("wake"), << Call("close", cycle[i], TRUE) >>)
    /\ UNCHANGED << loopVars, local_client_id, running_flag, cycle, cycle_flags,
                    capture_threads, timerVars, netVars, others >>

\* mod.rs:150-296: a frame is read from ws_read and handled
WsRead(i) ==
    /\ pc[i] = "select"
    /\ inbox[i] # << >>
    /\ Head(inbox[i]).type # "End"
    /\ LET f == Head(inbox[i]) IN
        /\ IF f.type \in {"Close", "Error"}
           THEN /\ pc' = [pc EXCEPT ![i] = "teardown"]
                /\ inbox' = [inbox EXCEPT ![i] = << >>]
                /\ Does(i, f, << >>)
                /\ UNCHANGED loopVars
           ELSE \E ok \in Outcomes, ok2 \in Outcomes :
                  LET r == OnMessage(LoopState(i), local_client_id[i], f, ok, ok2) IN
                    /\ f.type \in {"Join", "Welcome", "Offer", "Answer"} \/ ok
                    /\ f.type = "Offer" \/ ok2
                    /\ LoopCheck(i, r.st.should_reset_pc, Tail(inbox[i]), r.did)
                    /\ SetLoopState(i, r.st)
                    /\ Does(i, f, r.did)
    /\ UNCHANGED << lifeVars, timerVars, ws_open, rx_count, others >>

\* mod.rs:298-309: a local ICE candidate of the peer session is sent
LocalIce(i) ==
    /\ pc[i] = "select"
    /\ ice_rx[i] > 0
    /\ ice_rx' = [ice_rx EXCEPT ![i] = @ - 1]
    /\ LoopCheck(i, should_reset_pc[i], inbox[i], << Sent("IceCandidate", NoId, 1) >>)
    /\ Does(i, Frame("ice_rx"), << Sent("IceCandidate", NoId, 1) >>)
    /\ UNCHANGED << did_offer, remote_description_set, pending_candidates,
                    peer_last_ping, should_reset_pc, remote_desc,
                    lifeVars, timerVars, ws_open, rx_count, others >>

\* mod.rs:323-331: the heartbeat tick
Heartbeat(i) ==
    /\ pc[i] = "select"
    /\ heartbeat_interval[i] = 0
    /\ heartbeat_interval' = [heartbeat_interval EXCEPT ![i] = HeartbeatTicks]
    /\ LoopCheck(i, should_reset_pc[i], inbox[i],
                 << Sent("Ping", local_client_id[i], 0) >>)
    /\ Does(i, Frame("heartbeat"), << Sent("Ping", local_client_id[i], 0) >>)
    /\ UNCHANGED << loopVars, lifeVars, sleep_left, peer_timeout_check,
                    ws_open, rx_count, others >>

\* mod.rs:334-343: the timeout scan tick
TimeoutCheck(i) ==
    /\ pc[i] = "select"
    /\ peer_timeout_check[i] = 0
    /\ peer_timeout_check' = [peer_timeout_check EXCEPT ![i] = TimeoutCheckTicks]
    /\ \E order \in Orders(TimedOut(peer_last_ping[i])) :
         LET r == OnTimeoutCheck(LoopState(i), order) IN
            /\ LoopCheck(i, r.st.should_reset_pc, inbox[i], r.did)
            /\ SetLoopState(i, r.st)
            /\ Does(i, Frame("timeout-check"), r.did)
    /\ UNCHANGED << lifeVars, sleep_left, heartbeat_interval,
                    ws_open, rx_count, others >>

\* mod.rs:347-355: the end of a cycle: the cycle flag is cleared, the connection closed
Teardown(i) ==
    /\ pc[i] = "teardown"
    /\ cycle_flags' = [cycle_flags EXCEPT ![i] = @ \ {cycle[i]}]
    /\ open_pcs' = [open_pcs EXCEPT ![i] = @ \ {cycle[i]}]
    /\ pc' = [pc EXCEPT ![i] = "drain_sleep"]
    /\ sleep_left' = [sleep_left EXCEPT ![i] = DrainTicks]
    /\ heartbeat_interval' = [heartbeat_interval EXCEPT ![i] = 0]
    /\ peer_timeout_check' = [peer_timeout_check EXCEPT ![i] = 0]
    /\ Does(i, Frame("teardown"), << Call("close", cycle[i], TRUE) >>)
    /\ UNCHANGED << loopVars, local_client_id, running_flag, cycle, capture_threads,
                    netVars, others >>

\* mod.rs:355-363: after the 500 ms sleep the flag decides: the task ends or backs off
DrainWake(i) ==
    /\ pc[i] = "drain_sleep"
    /\ sleep_left[i] = 0
    /\ IF running_flag[i]
       THEN /\ pc' = [pc EXCEPT ![i] = "retry_sleep"]
            /\ sleep_left' = [sleep_left EXCEPT ![i] = RetryTicks]
            /\ UNCHANGED << ws_open, inbox >>
       ELSE /\ pc' = [pc EXCEPT ![i] = "done"]
            /\ ws_open' = [ws_open EXCEPT ![i] = FALSE]
            /\ Dropped(i)
            /\ UNCHANGED sleep_left
    /\ Does(i, Frame("wake"), << >>)
    /\ UNCHANGED << loopVars, lifeVars, heartbeat_interval, peer_timeout_check,
                    rx_count, others >>

\* mod.rs:363-364: the back-off is over; the socket of the cycle is dropped
RetryWake(i) ==
    /\ pc[i] = "retry_sleep"
    /\ sleep_left[i] = 0
    /\ pc' = [pc EXCEPT ![i] = "top"]
    /\ ws_open' = [ws_open EXCEPT ![i] = FALSE]
    /\ Dropped(i)
    /\ Does(i, Frame("wake"), << >>)
    /\ UNCHANGED << loopVars, lifeVars, timerVars, rx_count, others >>

\* mod.rs:84-96: every 500 ms a capture thread looks at its two flags and drops its
\* stream when one of them is clear; these are the threads that stay
CaptureThreadsLeft(i) ==
    { c \in capture_threads[i] : c \in cycle_flags[i] /\ running_flag[i] }

(* ---------------------------- the environment -------------------------- *)
\* the ids a frame of the environment may carry: a smaller one, the local one, a greater one
EnvFrames ==
       { Msg(t, id, 0) : t \in {"Join", "Welcome"}, id \in IdPool }
  \cup { Msg(t, id, 0) : t \in {"Leave", "Ping"}, id \in {<<1, 5>>, <<1, 7>>} }
  \cup { Msg(t, NoId, 0) : t \in {"Offer", "Answer"} }
  \cup { Msg("IceCandidate", NoId, c) : c \in {1, 2} }
  \cup { Msg("VoiceActivity", <<1, 5>>, 1) }
  \cup { Frame(t) : t \in {"Close", "Error", "End", "Other"} }

\* any frame may arrive on the socket of instance i, in any order; the next one
\* arrives when the task has read the one before, and the first one after the two
\* intervals' immediate first ticks
EnvFrame(i) ==
    /\ ws_open[i]
    /\ pc[i] = "select"
    /\ inbox[i] = << >>
    /\ heartbeat_interval[i] > 0 /\ peer_timeout_check[i] > 0
    /\ rx_count[i] < MaxRx
    /\ \E f \in EnvFrames : inbox' = [inbox EXCEPT ![i] = Append(@, f)]
    /\ rx_count' = [rx_count EXCEPT ![i] = @ + 1]
    /\ UNCHANGED << pc, loopVars, lifeVars, timerVars, ws_open,
                    offers_sent, present, out, others >>

\* media/mod.rs:19 and :54: the running flag of a session is cleared
ClearRunning(i) ==
    /\ running_flag[i]
    /\ pc[i] \notin {"unborn", "done"}
    /\ running_flag' = [running_flag EXCEPT ![i] = FALSE]
    /\ UNCHANGED << pc, local_client_id, cycle, open_pcs, cycle_flags, capture_threads,
                    loopVars, timerVars, netVars, offers_sent, present, out,
                    others >>

(* ------------- the conference manager (media/mod.rs) ------------------- *)
\* the sessions init has not created yet; the next one it creates
Unborn == { n \in Inst : pc[n] = "unborn" }
NextSession == CHOOSE n \in Unborn : \A m \in Unborn : n <= m

\* p2d::init: the controller task is spawned with its running flag set
SpawnSession(n) ==
    /\ pc' = [pc EXCEPT ![n] = "top"]
    /\ running_flag' = [running_flag EXCEPT ![n] = TRUE]

mgrRest == << local_client_id, cycle, open_pcs, cycle_flags, capture_threads, loopVars,
              timerVars, netVars, offers_sent, present, out, lib_faults, capVars,
              playVars >>

\* join_conference up to its sleep (media/mod.rs:10-26), or all of it when the slot
\* is empty (media/mod.rs:10-15 and 38-39)
JoinBegin(t) ==
    /\ call_pc[t] = "idle"
    /\ Unborn # {}
    /\ IF active_session # 0
       THEN /\ call_session' = [call_session EXCEPT ![t] = active_session]
            /\ active_session' = 0
            /\ running_flag' = [running_flag EXCEPT ![active_session] = FALSE]
            /\ call_pc' = [call_pc EXCEPT ![t] = "join_sleep"]
            /\ call_sleep' = [call_sleep EXCEPT ![t] = BarrierTicks]
            /\ UNCHANGED << pc, predecessor >>
       ELSE /\ SpawnSession(NextSession)
            /\ active_session' = NextSession
            /\ UNCHANGED << call_pc, call_sleep, call_session, predecessor >>
    /\ UNCHANGED mgrRest

\* join_conference after its sleep (media/mod.rs:28-34): the new session is started
\* and stored in the slot
JoinResume(t) ==
    /\ call_pc[t] = "join_sleep"
    /\ call_sleep[t] = 0
    /\ Unborn # {}
    /\ SpawnSession(NextSession)
    /\ active_session' = NextSession
    /\ predecessor' = [predecessor EXCEPT ![NextSession] = call_session[t]]
    /\ call_session' = [call_session EXCEPT ![t] = 0]
    /\ call_pc' = [call_pc EXCEPT ![t] = "idle"]
    /\ UNCHANGED << call_sleep, mgrRest >>

\* leave_conference up to its sleep (media/mod.rs:47-60)
LeaveBegin(t) ==
    /\ call_pc[t] = "idle"
    /\ active_session # 0
    /\ call_session' = [call_session EXCEPT ![t] = active_session]
    /\ active_session' = 0
    /\ running_flag' = [running_flag EXCEPT ![active_session] = FALSE]
    /\ call_pc' = [call_pc EXCEPT ![t] = "leave_sleep"]
    /\ call_sleep' = [call_sleep EXCEPT ![t] = BarrierTicks]
    /\ UNCHANGED << pc, predecessor, mgrRest >>

\* leave_conference after its sleep (media/mod.rs:61-64)
LeaveEnd(t) ==
    /\ call_pc[t] = "leave_sleep"
    /\ call_sleep[t] = 0
    /\ call_pc' = [call_pc EXCEPT ![t] = "idle"]
    /\ call_session' = [call_session EXCEPT ![t] = 0]
    /\ UNCHANGED << active_session, call_sleep, predecessor, pc, running_flag, mgrRest >>

(* --------------------------------- time -------------------------------- *)
\* a step the task takes without waiting
Urgent(i) ==
    \/ pc[i] \in {"top", "join", "teardown"}
    \/ pc[i] = "create" /\ cycle[i] < MaxCycles
    \/ pc[i] \in {"new_fail_sleep", "conn_fail_sleep", "drain_sleep", "retry_sleep"}
          /\ sleep_left[i] = 0
    \/ pc[i] = "select"
          /\ \/ heartbeat_interval[i] = 0
             \/ peer_timeout_check[i] = 0
             \/ ice_rx[i] > 0
             \/ inbox[i] # << >> /\ Head(inbox[i]).type # "End"

Dec(n) == IF n > 0 THEN n - 1 ELSE 0

\* the record of a task that took no step since the last tick
NoStep ==
    [ in |-> Frame("none"), did |-> << >>,
      st0 |-> [ did_offer |-> FALSE, remote_description_set |-> FALSE,
                pending_candidates |-> << >>, peer_last_ping |-> EmptyTable,
                should_reset_pc |-> FALSE, remote_desc |-> FALSE, ice_rx |-> 0 ] ]

\* no task has a step to take at once
Quiet == \A i \in Inst : ~Urgent(i)

\* 500 ms pass
Tick ==
    /\ Quiet
    /\ \A t \in DOMAIN call_pc : call_pc[t] \in {"join_sleep", "leave_sleep"} => call_sleep[t] > 0
    /\ sleep_left' = [ i \in Inst |-> Dec(sleep_left[i]) ]
    /\ heartbeat_interval' =
          [ i \in Inst |-> IF pc[i] = "select" THEN Dec(heartbeat_interval[i])
                           ELSE heartbeat_interval[i] ]
    /\ peer_timeout_check' =
          [ i \in Inst |-> IF pc[i] = "select" THEN Dec(peer_timeout_check[i])
                           ELSE peer_timeout_check[i] ]
    /\ peer_last_ping' = [ i \in Inst |-> TableAge(peer_last_ping[i]) ]
    /\ call_sleep' = [ t \in DOMAIN call_sleep |-> Dec(call_sleep[t]) ]
    /\ capture_threads' = [ i \in Inst |-> CaptureThreadsLeft(i) ]
    /\ out' = [ i \in Inst |-> NoStep ]
    /\ UNCHANGED << pc, local_client_id, running_flag, cycle, open_pcs, cycle_flags,
                    did_offer, remote_description_set, pending_candidates,
                    should_reset_pc, remote_desc, ice_rx, netVars, offers_sent,
                    present, active_session, call_pc, call_session, predecessor,
                    capVars, playVars,
                    lib_faults >>

\* time passes only while no task waits in its signaling loop
SleepTick == Tick /\ \A i \in Inst : pc[i] # "select"

(* ---------------- the capture side (audio.rs, start_audio_capture) ------ *)
\* samples are kept as runs <<amplitude, count>>; amplitudes are in thousandths
FRAME_SIZE_PER_CHANNEL == 960
VAD_THRESHOLD == 5
VAD_HANGOVER == 10
frame_len == FRAME_SIZE_PER_CHANNEL * 2

\* bounds of the capture runs
MaxTx == 2
MaxVad == 2
Levels == {0, 6}
InputSizes == {480, 1920}
ChannelCounts == {1, 2, 3}

RECURSIVE RunsLen(_)
RunsLen(b) == IF b = << >> THEN 0 ELSE b[1][2] + RunsLen(Tail(b))

\* n samples of value a appended to b
PushRun(b, a, n) ==
    IF n = 0 THEN b
    ELSE IF b # << >> /\ b[Len(b)][1] = a
         THEN [b EXCEPT ![Len(b)] = << a, @[2] + n >>]
         ELSE Append(b, << a, n >>)

\* b without its first n samples
RECURSIVE Drain(_, _)
Drain(b, n) ==
    IF n = 0 \/ b = << >> THEN b
    ELSE IF b[1][2] > n THEN << << b[1][1], b[1][2] - n >> >> \o Tail(b)
         ELSE Drain(Tail(b), n - b[1][2])

\* the sum of the squares of the first n samples of b
RECURSIVE SumSq(_, _)
SumSq(b, n) ==
    IF n = 0 \/ b = << >> THEN 0
    ELSE LET k == Min(n, b[1][2]) IN b[1][1] * b[1][1] * k + SumSq(Tail(b), n - k)

\* calculate_rms(frame_slice) > VAD_THRESHOLD, for the first frame_len samples of b
IsActive(b) == SumSq(b, frame_len) > VAD_THRESHOLD * VAD_THRESHOLD * frame_len

\* how many samples a callback with n input samples appends to the buffer
Pushed(n, ch) ==
    IF ch = 1 THEN 2 * n
    ELSE IF ch = 2 THEN n
    ELSE 2 * (n \div ch) + (IF n % ch >= 2 THEN 2 ELSE 0)

CaptureState ==
    [ buffer |-> cap_buffer, vad_hangover_frames |-> vad_hangover_frames,
      was_talking |-> was_talking, emits |-> << >>, vads |-> << >>, pkts |-> << >>,
      frames |-> 0, talking |-> 0, enc_errors |-> 0, avail |-> RunsLen(cap_buffer) ]

\* the mute branch that leaves was_talking as it is
MuteBranchSticky(c) ==
    [ c EXCEPT !.buffer = << >>,
               !.emits = IF c.was_talking THEN << FALSE >> ELSE << >>,
               !.vads = IF c.was_talking THEN << FALSE >> ELSE << >> ]

\* the callback while mute is set
MuteBranch(c) ==
    [ c EXCEPT !.buffer = << >>,
               !.was_talking = FALSE,
               !.emits = IF c.was_talking THEN << FALSE >> ELSE << >>,
               !.vads = IF c.was_talking THEN << FALSE >> ELSE << >> ]

\* one frame whose hangover counter is decremented after is_talking is taken
OneFrameLate(c, ok, enc) ==
    LET is_active == IsActive(c.buffer)
        is_talking == is_active \/ c.vad_hangover_frames > 0
        hang == IF is_active THEN VAD_HANGOVER
                ELSE IF c.vad_hangover_frames > 0 THEN c.vad_hangover_frames - 1
                ELSE c.vad_hangover_frames
        changed == is_talking # c.was_talking
    IN  [ buffer |-> Drain(c.buffer, frame_len),
          vad_hangover_frames |-> hang,
          was_talking |-> is_talking,
          emits |-> IF changed THEN Append(c.emits, is_talking) ELSE c.emits,
          vads |-> IF changed /\ ok THEN Append(c.vads, is_talking) ELSE c.vads,
          pkts |-> IF is_talking /\ enc THEN Append(c.pkts, "opus") ELSE c.pkts,
          frames |-> c.frames + 1,
          talking |-> IF is_talking THEN c.talking + 1 ELSE c.talking,
          enc_errors |-> IF is_talking /\ ~enc THEN c.enc_errors + 1 ELSE c.enc_errors,
          avail |-> c.avail ]

\* one frame of a loop without DTX: every frame is encoded
OneFrameNoDtx(c, ok, enc) ==
    LET is_active == IsActive(c.buffer)
        hang == IF is_active THEN VAD_HANGOVER
                ELSE IF c.vad_hangover_frames > 0 THEN c.vad_hangover_frames - 1
                ELSE c.vad_hangover_frames
        is_talking == hang > 0
        changed == is_talking # c.was_talking
    IN  [ buffer |-> Drain(c.buffer, frame_len),
          vad_hangover_frames |-> hang,
          was_talking |-> is_talking,
          emits |-> IF changed THEN Append(c.emits, is_talking) ELSE c.emits,
          vads |-> IF changed /\ ok THEN Append(c.vads, is_talking) ELSE c.vads,
          pkts |-> IF enc THEN Append(c.pkts, "opus") ELSE c.pkts,
          frames |-> c.frames + 1,
          talking |-> IF is_talking THEN c.talking + 1 ELSE c.talking,
          enc_errors |-> IF is_talking /\ ~enc THEN c.enc_errors + 1 ELSE c.enc_errors,
          avail |-> c.avail ]

\* one frame taken off the buffer; ok: the frontend emit succeeds, enc: the encoder does
OneFrame(c, ok, enc) ==
    LET is_active == IsActive(c.buffer)
        hang == IF is_active THEN VAD_HANGOVER
                ELSE IF c.vad_hangover_frames > 0 THEN c.vad_hangover_frames - 1
                ELSE c.vad_hangover_frames
        is_talking == hang > 0
        changed == is_talking # c.was_talking
    IN  [ buffer |-> Drain(c.buffer, frame_len),
          vad_hangover_frames |-> hang,
          was_talking |-> is_talking,
          emits |-> IF changed THEN Append(c.emits, is_talking) ELSE c.emits,
          vads |-> IF changed /\ ok THEN Append(c.vads, is_talking) ELSE c.vads,
          pkts |-> IF is_talking /\ enc THEN Append(c.pkts, "opus") ELSE c.pkts,
          frames |-> c.frames + 1,
          talking |-> IF is_talking THEN c.talking + 1 ELSE c.talking,
          enc_errors |-> IF is_talking /\ ~enc THEN c.enc_errors + 1 ELSE c.enc_errors,
          avail |-> c.avail ]

\* the frame loop: every way it can end, over the outcomes of emit and encode
RECURSIVE FrameLoop(_)
FrameLoop(c) ==
    IF RunsLen(c.buffer) < frame_len THEN { c }
    ELSE UNION { FrameLoop(OneFrame(c, ok, enc)) : ok \in Outcomes, enc \in Outcomes }

\* the whole input callback on n samples of amplitude a
Callback(a, n) ==
    IF ~cap_flag THEN { CaptureState }
    ELSE IF is_muted THEN { MuteBranch(CaptureState) }
    ELSE FrameLoop([ CaptureState EXCEPT
                        !.buffer = PushRun(@, a, Pushed(n, channels)),
                        !.avail = @ + Pushed(n, channels) ])

CapStep(k, ok, c) ==
    [ k |-> k, ok |-> ok, flag |-> cap_flag, muted |-> is_muted,
      was0 |-> was_talking, had |-> cap_buffer # << >>, later |-> muted_seen,
      emits |-> c.emits, vads |-> c.vads, pkts |-> c.pkts,
      frames |-> c.frames, talking |-> c.talking, enc_errors |-> c.enc_errors,
      avail |-> c.avail ]

NoCap ==
    [ k |-> "none", ok |-> TRUE, flag |-> TRUE, muted |-> FALSE, was0 |-> FALSE,
      had |-> FALSE, later |-> FALSE, emits |-> << >>, vads |-> << >>, pkts |-> << >>,
      frames |-> 0, talking |-> 0, enc_errors |-> 0, avail |-> 0 ]

InputCallback(a, n) ==
    /\ Len(tx) < MaxTx
    /\ Len(vad_tx) < MaxVad
    /\ \E c \in Callback(a, n) :
          /\ cap_buffer' = c.buffer
          /\ vad_hangover_frames' = c.vad_hangover_frames
          /\ was_talking' = c.was_talking
          /\ tx' = IF sender = "running" THEN tx \o c.pkts ELSE tx
          /\ vad_tx' = vad_tx \o c.vads
          /\ muted_seen' = (muted_seen \/ (cap_flag /\ is_muted))
          /\ cap_out' = CapStep("callback", TRUE, c)
    /\ UNCHANGED << channels, cap_flag, is_muted, sender,
                    ctlVars, mgrVars, playVars >>

\* the sender task takes the next packet off its channel
SenderStep ==
    /\ sender = "running"
    /\ tx # << >>
    /\ IF ~cap_flag
       THEN /\ sender' = "ended"
            /\ tx' = << >>
            /\ cap_out' = CapStep("sender_exit", TRUE, [CaptureState EXCEPT !.pkts = << Head(tx) >>])
       ELSE \E ok \in Outcomes :
            /\ sender' = IF ok THEN "running" ELSE "ended"
            /\ tx' = IF ok THEN Tail(tx) ELSE << >>
            /\ cap_out' = CapStep("write_sample", ok, [CaptureState EXCEPT !.pkts = << Head(tx) >>])
    /\ UNCHANGED << channels, cap_flag, is_muted, cap_buffer, vad_hangover_frames,
                    was_talking, vad_tx, muted_seen, ctlVars, mgrVars, playVars >>

\* the controller takes a transition off vad_rx and sends it on
VadRecv ==
    /\ vad_tx # << >>
    /\ vad_tx' = Tail(vad_tx)
    /\ cap_out' = CapStep("vad_rx", TRUE, [CaptureState EXCEPT !.vads = << Head(vad_tx) >>])
    /\ UNCHANGED << channels, cap_flag, is_muted, cap_buffer, vad_hangover_frames,
                    was_talking, tx, sender, muted_seen, ctlVars, mgrVars, playVars >>

ToggleMute ==
    /\ is_muted' = ~is_muted
    /\ muted_seen' = FALSE
    /\ UNCHANGED << channels, cap_flag, cap_buffer, vad_hangover_frames, was_talking,
                    tx, vad_tx, sender, cap_out, ctlVars, mgrVars, playVars >>

\* the cycle that owns the capture ends
ClearCaptureFlag ==
    /\ cap_flag
    /\ cap_flag' = FALSE
    /\ UNCHANGED << channels, is_muted, cap_buffer, vad_hangover_frames, was_talking,
                    tx, vad_tx, sender, muted_seen, cap_out, ctlVars, mgrVars,
                    playVars >>

(* --------------- the playback side (audio.rs, start_audio_playback) ----- *)
\* f32 values between 0 and 4 are kept as whole multiples of 2^-23, the spacing of
\* the f32 values from 1.0 to 2.0: ONE is 1.0
source_sample_rate == 48000
configured_sample_rate == 48000
INITIAL_BUFFER_TARGET == 3840
ONE == 8388608

\* bounds of the playback runs
MaxPackets == 3
Stride == 44
Values == {1, 2}
PacketSizes == {1920}
LongPacketSizes == {1920, 3840}
OutputSizes == {960, 1920}
DeviceRates == {44100, 48000}

\* x rounded to the nearest multiple of step, ties to the even multiple
RoundTo(x, step) ==
    LET q == x \div step
        r == x % step
    IN  IF 2 * r < step THEN q * step
        ELSE IF 2 * r > step THEN (q + 1) * step
        ELSE IF q % 2 = 0 THEN q * step ELSE (q + 1) * step

\* the f32 sum of two values: exact below 2.0, rounded to the spacing 2^-22 from there
F32Add(x, y) == IF x + y < 2 * ONE THEN x + y ELSE RoundTo(x + y, 2)

RECURSIVE GCD(_, _)
GCD(a, b) == IF b = 0 THEN a ELSE GCD(b, a % b)

\* the f32 quotient a / b of two whole numbers with 1 <= a / b < 2, computed on the
\* reduced fraction
F32Div(a, b) ==
    LET g == GCD(a, b)
        q == ((a \div g) * ONE) \div (b \div g)
        r == ((a \div g) * ONE) % (b \div g)
    IN  IF 2 * r < b \div g THEN q
        ELSE IF 2 * r > b \div g THEN q + 1
        ELSE IF q % 2 = 0 THEN q ELSE q + 1

\* ratio = source_sample_rate / target_sample_rate
ratio == F32Div(source_sample_rate, device_sample_rate)

PopFront(b) ==
    IF b = << >> THEN b
    ELSE IF b[1][2] > 1 THEN << << b[1][1], b[1][2] - 1 >> >> \o Tail(b)
         ELSE Tail(b)

\* if fractional_pos >= 1.0 { buffer.pop_front(); fractional_pos -= 1.0 }, once
PopOnce(b, f, k) ==
    IF f >= ONE THEN [ buffer |-> PopFront(b), fractional_pos |-> f - ONE, pops |-> k + 1 ]
    ELSE [ buffer |-> b, fractional_pos |-> f, pops |-> k ]

\* while fractional_pos >= 1.0 { buffer.pop_front(); fractional_pos -= 1.0 };
\* k counts the pop_front calls
RECURSIVE PopWhile(_, _, _)
PopWhile(b, f, k) ==
    IF f >= ONE THEN PopWhile(PopFront(b), f - ONE, k + 1)
    ELSE [ buffer |-> b, fractional_pos |-> f, pops |-> k ]

curr_val(b) == IF b = << >> THEN 0 ELSE b[1][1]

next_val(b) ==
    IF b = << >> THEN curr_val(b)
    ELSE IF b[1][2] >= 2 THEN b[1][1]
    ELSE IF Len(b) >= 2 THEN b[2][1]
    ELSE curr_val(b)

\* the interpolated sample, in units of 2^-23 of a sample value
interpolated(b, f) == curr_val(b) * ONE + (next_val(b) - curr_val(b)) * f

\* one output sample that is written as interpolated whatever deaf is
SampleStepAudible(c, deaf) ==
    LET p == PopWhile(c.buffer, F32Add(c.fractional_pos, c.ratio), c.pops)
    IN  [ buffer |-> p.buffer, fractional_pos |-> p.fractional_pos, pops |-> p.pops,
          ratio |-> c.ratio,
          in_unit |-> c.in_unit /\ p.fractional_pos >= 0 /\ p.fractional_pos < ONE,
          output |-> PushRun(c.output, interpolated(c.buffer, c.fractional_pos), 1),
          written |-> c.written + 1 ]

\* one output sample that leaves the queue alone while deaf
SampleStepHold(c, deaf) ==
    LET p == IF deaf THEN [ buffer |-> c.buffer, fractional_pos |-> c.fractional_pos,
                            pops |-> c.pops ]
             ELSE PopWhile(c.buffer, F32Add(c.fractional_pos, c.ratio), c.pops)
    IN  [ buffer |-> p.buffer, fractional_pos |-> p.fractional_pos, pops |-> p.pops,
          ratio |-> c.ratio,
          in_unit |-> c.in_unit /\ p.fractional_pos >= 0 /\ p.fractional_pos < ONE,
          output |-> PushRun(c.output,
                             IF deaf THEN 0
                             ELSE interpolated(c.buffer, c.fractional_pos), 1),
          written |-> c.written + 1 ]

\* one pass of the loop over output_data
SampleStep(c, deaf) ==
    LET p == PopWhile(c.buffer, F32Add(c.fractional_pos, c.ratio), c.pops)
    IN  [ buffer |-> p.buffer, fractional_pos |-> p.fractional_pos, pops |-> p.pops,
          ratio |-> c.ratio,
          in_unit |-> c.in_unit /\ p.fractional_pos >= 0 /\ p.fractional_pos < ONE,
          output |-> PushRun(c.output,
                             IF deaf THEN 0
                             ELSE interpolated(c.buffer, c.fractional_pos), 1),
          written |-> c.written + 1 ]

\* the passes up to the n-th output sample
RECURSIVE SampleLoop(_, _, _)
SampleLoop(c, deaf, n) ==
    IF c.written = n THEN c ELSE SampleLoop(SampleStep(c, deaf), deaf, n)

\* the loop over an output block of n samples, evaluated a stride at a time
RECURSIVE FillOutput(_, _, _)
FillOutput(c, deaf, n) ==
    IF n - c.written <= Stride THEN SampleLoop(c, deaf, n)
    ELSE FillOutput(SampleLoop(c, deaf, c.written + Stride), deaf, n)

\* buffer.extend(packet) for every packet waiting on the channel
RECURSIVE Extend(_, _)
Extend(b, packets) ==
    IF packets = << >> THEN b
    ELSE Extend(PushRun(b, Head(packets)[1], Head(packets)[2]), Tail(packets))

\* a callback that took one of the silent returns
Silent(buf, n, branch) ==
    [ buffer |-> buf, fractional_pos |-> fractional_pos, buffering |-> TRUE,
      pops |-> 0, in_unit |-> TRUE, output |-> << << 0, n >> >>, branch |-> branch ]

\* the start of playback as soon as anything is queued
StillBufferingHasty(buf) == buffering /\ RunsLen(buf) = 0

\* buffering, and the queue is short of the target
StillBuffering(buf) == buffering /\ RunsLen(buf) < INITIAL_BUFFER_TARGET

\* the underrun taken whenever the queue is short of the target
UnderrunEager(buf) == ~buffering /\ RunsLen(buf) < INITIAL_BUFFER_TARGET

\* playing, and the queue is empty
Underrun(buf) == ~buffering /\ RunsLen(buf) = 0

\* the whole output callback on a block of n samples, with the deafen flag read as deaf
OutputCallbackResult(deaf, n) ==
    LET buf == Extend(play_buffer, rx) IN
    IF StillBuffering(buf) THEN Silent(buf, n, "buffering")
    ELSE IF Underrun(buf) THEN Silent(buf, n, "underrun")
    ELSE LET c == FillOutput([ buffer |-> buf, fractional_pos |-> fractional_pos,
                               pops |-> 0, ratio |-> ratio, in_unit |-> TRUE,
                               output |-> << >>, written |-> 0 ], deaf, n)
         IN  [ buffer |-> c.buffer, fractional_pos |-> c.fractional_pos,
               buffering |-> FALSE, pops |-> c.pops, in_unit |-> c.in_unit,
               output |-> c.output, branch |-> "played" ]

NoPlay ==
    [ deaf |-> FALSE, branch |-> "none", buffer0 |-> << >>, queued |-> << >>,
      output |-> << >>, n |-> 0, buffering0 |-> TRUE, fractional_pos0 |-> 0, pops |-> 0,
      in_unit |-> TRUE ]

OutputCallback(n) ==
    \E r \in { OutputCallbackResult(is_deafened, n) } :
    /\ play_buffer' = r.buffer
    /\ fractional_pos' = r.fractional_pos
    /\ buffering' = r.buffering
    /\ rx' = << >>
    /\ play_rx_count' = play_rx_count + Len(rx)
    /\ underruns' = IF r.branch = "underrun" THEN underruns + 1 ELSE underruns
    /\ play_out' = [ deaf |-> is_deafened, branch |-> r.branch,
                     buffer0 |-> play_buffer,
                     queued |-> Extend(play_buffer, rx), output |-> r.output,
                     n |-> n, buffering0 |-> buffering,
                     fractional_pos0 |-> fractional_pos, pops |-> r.pops,
                     in_unit |-> r.in_unit ]
    /\ UNCHANGED << is_deafened, device_sample_rate, ctlVars, mgrVars, capVars >>

\* the decoder loop of on_track sends a decoded packet of n samples of value v
PacketArrives(v, n) ==
    /\ play_rx_count + Len(rx) < MaxPackets
    /\ rx' = Append(rx, << v, n >>)
    /\ UNCHANGED << is_deafened, device_sample_rate, play_rx_count, play_buffer,
                    fractional_pos, buffering, underruns, play_out,
                    ctlVars, mgrVars, capVars >>

ToggleDeafen ==
    /\ is_deafened' = ~is_deafened
    /\ UNCHANGED << device_sample_rate, rx, play_rx_count, play_buffer, fractional_pos,
                    buffering, underruns, play_out, ctlVars, mgrVars, capVars >>

(* ------------------------------ initial states ------------------------- *)
Callers == {1, 2}

InitMgr ==
    /\ active_session = 0
    /\ call_pc = [ t \in Callers |-> "idle" ]
    /\ call_sleep = [ t \in Callers |-> 0 ]
    /\ call_session = [ t \in Callers |-> 0 ]
    /\ predecessor = [ i \in Inst |-> 0 ]

\* start_audio_capture has just returned (audio.rs:15-87)
InitCap(chs) ==
    /\ channels \in chs
    /\ cap_flag = TRUE
    /\ is_muted = FALSE
    /\ cap_buffer = << >>
    /\ vad_hangover_frames = 0
    /\ was_talking = FALSE
    /\ tx = << >>
    /\ vad_tx = << >>
    /\ sender = "running"
    /\ muted_seen = FALSE
    /\ cap_out = NoCap

\* start_audio_playback has just returned (audio.rs:240-258)
InitPlay(rates) ==
    /\ is_deafened = FALSE
    /\ device_sample_rate \in rates
    /\ rx = << >>
    /\ play_rx_count = 0
    /\ play_buffer = << >>
    /\ fractional_pos = 0
    /\ buffering = TRUE
    /\ underruns = 0
    /\ play_out = NoPlay

\* the tasks in `started` were spawned by init (mod.rs:17-49), each with a fresh id;
\* the tasks in `ended` belong to sessions that were left before and have returned
InitCtlOf(started, ended, faults) ==
    /\ pc = [ i \in Inst |-> IF i \in started THEN "top"
                             ELSE IF i \in ended THEN "done" ELSE "unborn" ]
    /\ local_client_id \in [ Inst -> IdPool ]
    /\ \A i, j \in Inst : i # j => local_client_id[i] # local_client_id[j]
    /\ \A i \in (Inst \ started) \ {3} :
           local_client_id[i] = (IF i = 1 THEN <<1, 7>> ELSE <<2, 0>>)
    /\ running_flag = [ i \in Inst |-> i \in started ]
    /\ cycle = [ i \in Inst |-> 0 ]
    /\ open_pcs = [ i \in Inst |-> {} ]
    /\ cycle_flags = [ i \in Inst |-> {} ]
    /\ capture_threads = [ i \in Inst |-> {} ]
    /\ sleep_left = [ i \in Inst |-> 0 ]
    /\ heartbeat_interval = [ i \in Inst |-> 0 ]
    /\ peer_timeout_check = [ i \in Inst |-> 0 ]
    /\ remote_description_set = [ i \in Inst |-> FALSE ]
    /\ pending_candidates = [ i \in Inst |-> << >> ]
    /\ did_offer = [ i \in Inst |-> FALSE ]
    /\ should_reset_pc = [ i \in Inst |-> FALSE ]
    /\ peer_last_ping = [ i \in Inst |-> EmptyTable ]
    /\ remote_desc = [ i \in Inst |-> FALSE ]
    /\ ws_open = [ i \in Inst |-> FALSE ]
    /\ inbox = [ i \in Inst |-> << >> ]
    /\ rx_count = [ i \in Inst |-> 0 ]
    /\ offers_sent = [ i \in Inst |-> 0 ]
    /\ present = [ i \in Inst |-> {} ]
    /\ ice_rx = [ i \in Inst |-> 0 ]
    /\ out = [ i \in Inst |-> NoStep ]
    /\ lib_faults = faults

\* at most two sessions are still to come
InitCtl(started, faults) == InitCtlOf(started, {3}, faults)

(* --------- one controller against an arbitrary signaling peer ---------- *)
Init ==
    /\ InitCtl({1}, TRUE) /\ InitMgr /\ InitCap({2}) /\ InitPlay({configured_sample_rate})
    /\ local_client_id[1] = <<1, 7>>

\* the steps of a task on its way through a cycle
Steps(i) ==
    \/ LoopTop(i)
    \/ CreateSession(i)
    \/ ConnectOk(i)
    \/ SendJoin(i)
    \/ WsRead(i)
    \/ LocalIce(i)
    \/ Heartbeat(i)
    \/ TimeoutCheck(i)
    \/ Teardown(i)
    \/ DrainWake(i)
    \/ RetryWake(i)

\* the steps after a failed P2DSession::new or connect_signaling
FaultSteps(i) ==
    \/ NewFailWake(i)
    \/ ConnectFail(i)
    \/ ConnFailWake(i)

Controller(i) == Steps(i) \/ FaultSteps(i)

Next ==
    \/ Controller(1)
    \/ EnvFrame(1)
    \/ ClearRunning(1)
    \/ SleepTick

Spec == Init /\ [][Next]_vars

(* ------------- two controllers in one room, through the server --------- *)
\* the connection of instance i is lost: its ws_read yields a Close frame or an error
ConnectionLost(i) ==
    /\ ws_open[i]
    /\ Reading(i)
    /\ cycle[i] < MaxCycles
    /\ \E t \in {"Close", "Error"} : inbox' = [inbox EXCEPT ![i] = Append(@, Frame(t))]
    /\ UNCHANGED << pc, loopVars, lifeVars, timerVars, ws_open, rx_count,
                    offers_sent, present, out, others >>

InitPair ==
    /\ InitCtl({1, 2}, FALSE) /\ InitMgr /\ InitCap({2}) /\ InitPlay({configured_sample_rate})
    /\ local_client_id[1] = <<1, 7>>

\* connections are lost and users leave between the bursts of the protocol
NextPair ==
    \/ \E i \in Inst :
          \/ Steps(i)
          \/ Quiet /\ ConnectionLost(i)
          \/ Quiet /\ ClearRunning(i)
    \/ Tick

SpecPair == InitPair /\ [][NextPair]_vars

(* ------------- sessions started and stopped by the manager ------------- *)
InitSessions == InitCtl({}, TRUE) /\ InitMgr /\ InitCap({2}) /\ InitPlay({configured_sample_rate})

NextSessions ==
    \/ \E i \in Inst :
          \/ Controller(i)
          \/ Quiet /\ ConnectionLost(i)
    \/ \E t \in Callers :
          \/ JoinBegin(t)
          \/ JoinResume(t)
          \/ LeaveBegin(t)
          \/ LeaveEnd(t)
    \/ Tick

SpecSessions == InitSessions /\ [][NextSessions]_vars

(* --------------------------- the capture alone -------------------------- *)
InitCapture == InitCtl({}, TRUE) /\ InitMgr /\ InitCap(ChannelCounts) /\ InitPlay({configured_sample_rate})

NextCapture ==
    \/ \E a \in Levels, n \in InputSizes : InputCallback(a, n)
    \/ SenderStep
    \/ VadRecv
    \/ ToggleMute
    \/ ClearCaptureFlag

SpecCapture == InitCapture /\ [][NextCapture]_vars

(* --------------------------- the playback alone ------------------------- *)
NextPlayback ==
    \/ \E n \in OutputSizes : OutputCallback(n)
    \/ \E v \in Values, n \in PacketSizes : PacketArrives(v, n)
    \/ ToggleDeafen

SpecPlayback == InitSessions /\ [][NextPlayback]_vars

(* ------------- the playback at the device rates of the resampler ------- *)
InitResampler ==
    InitCtl({}, TRUE) /\ InitMgr /\ InitCap({2}) /\ InitPlay(DeviceRates)

NextResampler ==
    \/ \E n \in OutputSizes : OutputCallback(n)
    \/ \E n \in LongPacketSizes : PacketArrives(1, n)

SpecResampler == InitResampler /\ [][NextResampler]_vars

(* ------ three sessions of one client, started and left by two callers ---- *)
InitSlot ==
    /\ InitCtlOf({}, {}, FALSE) /\ InitMgr /\ InitCap({2})
    /\ InitPlay({configured_sample_rate})

\* the signaling server does not answer: each task builds its peer session and
\* waits in connect_signaling (mod.rs:99)
NextSlot ==
    \/ \E i \in Inst : LoopTop(i) \/ CreateSession(i)
    \/ \E t \in Callers :
          \/ JoinBegin(t)
          \/ JoinResume(t)
          \/ LeaveBegin(t)
          \/ LeaveEnd(t)
    \/ Tick

SpecSlot == InitSlot /\ [][NextSlot]_vars

(* ------------- one controller, its socket and the clock ---------------- *)
InitTimed ==
    /\ InitCtl({1}, FALSE) /\ InitMgr /\ InitCap({2}) /\ InitPlay({configured_sample_rate})
    /\ local_client_id[1] = <<1, 7>>

NextTimed == Steps(1) \/ EnvFrame(1) \/ Tick

SpecTimed == InitTimed /\ [][NextTimed]_vars

\* the tokio runtime polls the task whenever it can make progress, and time passes;
\* nothing obliges the room to send a frame
SpecTimedFair == SpecTimed /\ WF_vars(Steps(1)) /\ WF_vars(Tick)

(* ------- one session and the capture of its first cycle, until leave ----- *)
\* mod.rs:84-85: the flag handed to start_audio_capture is the audio_cycle_flag of the
\* cycle; the input stream calls back while the capture thread of the cycle holds it
CycleCallback(a, n) ==
    /\ cycle[1] = 1
    /\ 1 \in capture_threads[1]
    /\ cap_flag = (1 \in cycle_flags[1])
    /\ InputCallback(a, n)

\* mod.rs:348: the store to the flag of the first cycle, as the capture side sees it
CycleFlagCleared ==
    /\ cycle[1] >= 1
    /\ 1 \notin cycle_flags[1]
    /\ ClearCaptureFlag

\* the frames the room sends to the session that is left: a peer joins, and the
\* socket closes
LeaveFrames == { Msg("Join", <<1, 5>>, 0), Msg("Join", <<2, 0>>, 0), Frame("Close") }

\* one of these frames arrives on the socket, as in EnvFrame
LeaveFrame(i) ==
    /\ ws_open[i]
    /\ pc[i] = "select"
    /\ inbox[i] = << >>
    /\ heartbeat_interval[i] > 0 /\ peer_timeout_check[i] > 0
    /\ rx_count[i] < MaxRx
    /\ \E f \in LeaveFrames : inbox' = [inbox EXCEPT ![i] = Append(@, f)]
    /\ rx_count' = [rx_count EXCEPT ![i] = @ + 1]
    /\ UNCHANGED << pc, loopVars, lifeVars, timerVars, ws_open,
                    offers_sent, present, out, others >>

NextLeave ==
    \/ Steps(1)
    \/ LeaveFrame(1)
    \/ ClearRunning(1)
    \/ Tick
    \/ CycleCallback(6, 1920)
    \/ CycleFlagCleared
    \/ SenderStep
    \/ VadRecv

SpecLeave == InitTimed /\ [][NextLeave]_vars

(* ------ two controllers that join a room and stay: the negotiation ----- *)
\* the steps of a task from its start to the signaling loop and inside the loop
Negotiation(i) ==
    \/ LoopTop(i)
    \/ CreateSession(i)
    \/ ConnectOk(i)
    \/ SendJoin(i)
    \/ WsRead(i)
    \/ LocalIce(i)
    \/ Heartbeat(i)
    \/ TimeoutCheck(i)

NextNegotiate == (\E i \in Inst : Negotiation(i)) \/ Tick

\* the tokio runtime polls every spawned task that can make progress, and time passes
SpecNegotiate ==
    /\ InitPair /\ [][NextNegotiate]_vars
    /\ \A i \in Inst : WF_vars(Negotiation(i))
    /\ WF_vars(Tick)

(* ======================= properties of the controller ================== *)
\* whether the calls of `did`, made in order on a peer connection that has a remote
\* description iff rd, apply a candidate before a remote description is set
RECURSIVE EarlyIce(_, _)
EarlyIce(rd, did) ==
    IF did = << >> THEN FALSE
    ELSE LET e == Head(did) IN
         IF e.k = "call" /\ e.n = "add_ice_candidate" /\ ~rd THEN TRUE
         ELSE EarlyIce(rd \/ (e.k = "call" /\ e.n = "set_remote_description" /\ e.ok),
                       Tail(did))

\* C1: add_ice_candidate is called on the peer connection of a cycle only after a
\* set_remote_description call on that same connection has succeeded; a candidate
\* that arrives before is appended to pending_candidates and no call is made
C1_IceAfterRemoteDescription ==
    \A i \in Inst :
            /\ ~EarlyIce(out[i].st0.remote_desc, out[i].did)
            /\ (out[i].in.type = "IceCandidate" /\ ~out[i].st0.remote_desc) =>
                   /\ out[i].did = << >>
                   /\ pending_candidates[i] # << >>
                   /\ pending_candidates[i][Len(pending_candidates[i])] = out[i].in.body

\* C1 witness: in its second cycle the task buffered a candidate that arrived before
\* the Offer and applied it right after set_remote_description succeeded
C1_Witness ==
    /\ cycle[1] = 2
    /\ out[1].in.type = "Offer"
    /\ ~out[1].st0.remote_desc
    /\ CountOf(out[1].did, "call", "add_ice_candidate") = 1
    /\ out[1].did[1] = Call("set_remote_description", 1, TRUE)

\* C2: of two peers of a room the one with the smaller client id never sends an
\* Offer, the one with the greater id sends at most one Offer in a cycle, and once
\* it has handled the Join or the Welcome of the smaller peer it has sent exactly one
C2_GreaterIdOffers ==
    \A i, j \in Peers :
        StrGreater(local_client_id[j], local_client_id[i]) =>
            /\ offers_sent[i] = 0
            /\ offers_sent[j] <= 1
            /\ (out[j].in.type \in {"Join", "Welcome"}
                    /\ out[j].in.client_id = local_client_id[i]) => offers_sent[j] = 1

\* C2 witness: both peers announced themselves; the greater one handled the Welcome of
\* the smaller one, sent its Offer, and the smaller one has answered it
C2_Witness ==
    \E i, j \in Peers :
        /\ StrGreater(local_client_id[j], local_client_id[i])
        /\ out[j].in = Msg("Welcome", local_client_id[i], 0)
        /\ out[i].in.type = "Offer"
        /\ CountOf(out[i].did, "send", "Answer") = 1
        /\ local_client_id[j] \in present[i]
        /\ offers_sent[j] = 1 /\ offers_sent[i] = 0
        /\ did_offer[j] /\ ~did_offer[i]

\* C3 (as a property of finished runs): when the controller task has ended, every
\* remote id for which peer-joined was emitted has had a peer-left emitted after it
C3_EveryJoinedPeerLeft ==
    \A i \in Inst : pc[i] = "done" => present[i] = {}

\* C6: handling a Leave that carries the local client id emits nothing (no peer-left),
\* leaves the peer table, did_offer, remote_description_set and pending_candidates
\* as they were, does not set should_reset_pc, and the task goes on with the next
\* round of the signaling loop, which it leaves only when its running flag is clear
C6_SelfLeaveIgnored ==
    \A i \in Inst :
        out[i].in = Msg("Leave", local_client_id[i], 0) =>
            /\ out[i].did = << >>
            /\ pc[i] \in {"select", "teardown"}
            /\ pc[i] = "teardown" => ~running_flag[i]
            /\ LoopState(i) = out[i].st0

\* C6 witness: a self-Leave was handled while the peer table and the pending list
\* were not empty, and the task is back at the top of the loop without a reset
C6_Witness ==
    /\ out[1].in = Msg("Leave", local_client_id[1], 0)
    /\ pc[1] = "select"
    /\ DOMAIN peer_last_ping[1] # {}
    /\ pending_candidates[1] # << >>
    /\ ~should_reset_pc[1]

\* C4: at most one session has a peer connection that is not closed
C4_OneLiveSession == Cardinality({ i \in Inst : open_pcs[i] # {} }) <= 1

\* C5: when a session that replaces another one has just built its peer connection,
\* the session it replaced has no peer connection that is not closed
C5_OldClosedBeforeNewBuilt ==
    \A n \in Inst :
        (predecessor[n] # 0 /\ out[n].in = Frame("create")
            /\ out[n].did = << Call("new", 0, TRUE) >>) =>
                open_pcs[predecessor[n]] = {}

(* ==================== properties of capture and playback =============== *)
\* C7: no write_sample call of the sender task happens while mute is set, also not
\* for a packet that the callback queued before mute was set
C7_NoWriteWhileMuted == ~(cap_out.k = "write_sample" /\ cap_out.muted)

\* C8: a callback that passes the running-flag check with mute set and was_talking
\* true makes exactly one voice-activity emit and one send to the signaling channel,
\* both false, clears the accumulation buffer, encodes nothing and leaves
\* was_talking false; a muted callback after it emits and sends nothing
C8_MuteEmitsOnce ==
    (cap_out.k = "callback" /\ cap_out.flag /\ cap_out.muted) =>
        /\ cap_out.pkts = << >>
        /\ cap_buffer = << >>
        /\ ~was_talking
        /\ cap_out.emits = (IF cap_out.was0 THEN << FALSE >> ELSE << >>)
        /\ cap_out.vads = cap_out.emits
        /\ cap_out.later => cap_out.emits = << >>

\* C8 witness: the user was talking with samples left in the buffer when the first
\* callback after mute was set ran
C8_Witness ==
    /\ cap_out.k = "callback" /\ cap_out.flag /\ cap_out.muted
    /\ cap_out.was0 /\ cap_out.had /\ ~cap_out.later
    /\ cap_out.emits = << FALSE >>
    /\ vad_hangover_frames > 0

\* C9: an output callback that reads the deafen flag as set writes 0.0 to every
\* sample of its output block
C9_DeafOutputsSilence ==
    play_out.deaf => \A k \in 1..Len(play_out.output) : play_out.output[k][1] = 0

\* C9 witness: a deaf callback ran the interpolation loop over queued non-zero samples
C9_Witness ==
    /\ play_out.deaf
    /\ play_out.branch = "played"
    /\ play_out.queued # << >>
    /\ play_out.queued[1][1] # 0
    /\ play_out.output # << >>

\* C10: from every state and for every output block size, the callback with deafen
\* set leaves the queue, fractional_pos and buffering as the callback with deafen
\* clear leaves them
C10_DeafDrainsAlike ==
    \A n \in OutputSizes :
        \A d \in { OutputCallbackResult(TRUE, n) }, h \in { OutputCallbackResult(FALSE, n) } :
            /\ d.buffer = h.buffer
            /\ d.fractional_pos = h.fractional_pos
            /\ d.buffering = h.buffering

\* C10 witness: a state from which the two callbacks play and differ in their output
C10_Witness ==
    /\ ~buffering
    /\ play_buffer # << >>
    /\ \E n \in OutputSizes :
          /\ OutputCallbackResult(TRUE, n).output # OutputCallbackResult(FALSE, n).output
          /\ OutputCallbackResult(TRUE, n).buffer # play_buffer

\* whether every sample of the output block is 0.0
Silence(block) == \A k \in 1..Len(block) : block[k][1] = 0

\* C11: a callback that ends in the buffering state leaves every sample it found in
\* the queue, and when a callback changes the state from playing to buffering the
\* queue is empty
C11_BufferingNeverDrains ==
    /\ (play_out.branch # "none" /\ buffering) => play_buffer = play_out.queued
    /\ (~play_out.buffering0 /\ buffering) => play_buffer = << >>

\* C11 witness: after an underrun a callback found samples queued, fewer than the
\* target, and kept them
C11_Witness ==
    /\ underruns > 0
    /\ play_out.branch = "buffering"
    /\ play_out.queued # << >>
    /\ play_buffer = play_out.queued

\* floor(fractional_pos + N * ratio) for the last callback, from its initial
\* fractional_pos and its block size N
ExpectedPops ==
    play_out.n * (ratio \div ONE)
        + (play_out.fractional_pos0 + play_out.n * (ratio % ONE)) \div ONE

\* the samples the last callback removed from the queue
Removed == RunsLen(play_out.queued) - RunsLen(play_buffer)

C13_LongGapTimesOut ==
    \A i \in Inst :
        (out[i].in.type = "Ping" /\ out[i].in.client_id \in DOMAIN out[i].st0.peer_last_ping)
            => out[i].st0.peer_last_ping[out[i].in.client_id] <= PeerTimeoutTicks

\* C14: after every callback that passes the running-flag check (a muted one, or one
\* that processed frames), was_talking is true exactly when vad_hangover_frames > 0
C14_TalkingIffHangover ==
    (cap_out.k = "callback" /\ cap_out.flag) =>
        (was_talking <=> vad_hangover_frames > 0)

\* C15: two clients that join the same room and stay, with a server that hands every
\* frame to the other client, eventually are negotiated: the client with the greater
\* id has sent the one Offer, the other has sent none, and both peer connections have
\* a remote description (the Offer on the smaller side, the Answer on the greater)
C15_EventuallyNegotiated ==
    <>(\A i, j \in Peers :
          StrGreater(local_client_id[j], local_client_id[i]) =>
              /\ offers_sent[j] = 1 /\ offers_sent[i] = 0
              /\ remote_desc[i] /\ remote_desc[j]
              /\ did_offer[j] /\ ~did_offer[i])

\* C15 witness: the greater client has just set the Answer of the smaller one as its
\* remote description
C15_Witness ==
    \E i, j \in Peers :
        /\ StrGreater(local_client_id[j], local_client_id[i])
        /\ out[j].in.type = "Answer"
        /\ out[j].did = << Call("set_remote_description", 2, TRUE) >>
        /\ ~out[j].st0.remote_desc /\ remote_desc[j] /\ remote_desc[i]
        /\ offers_sent[j] = 1 /\ offers_sent[i] = 0

\* the step of task i emitted peer-left for the remote id
LeftEmitted(i, id) ==
    \E k \in 1..Len(out[i].did) : out[i].did[k] = Emit("peer-left", id, 0)

C17_OfferDrainsPending ==
    \A i \in Inst :
        out[i].in.type = "Offer" =>
            LET did == out[i].did
                pending == out[i].st0.pending_candidates
                n == Len(pending)
            IN  /\ did # << >>
                /\ did[1].k = "call" /\ did[1].n = "set_remote_description"
                /\ ~did[1].ok =>
                       /\ Len(did) = 1
                       /\ pending_candidates[i] = pending
                /\ did[1].ok =>
                       /\ Len(did) >= n + 2
                       /\ \A j \in 1..n :
                              did[1 + j] = Call("add_ice_candidate", pending[j], TRUE)
                       /\ did[n + 2].k = "call" /\ did[n + 2].n = "create_answer"
                       /\ did[n + 2].ok =>
                              /\ Len(did) = n + 3
                              /\ did[n + 3] = Sent("Answer", NoId, 0)
                       /\ ~did[n + 2].ok => Len(did) = n + 2
                       /\ pending_candidates[i] = << >>

\* C17 witness: two different candidates arrived before the Offer and were applied
\* between set_remote_description and create_answer, and the Answer was sent
C17_Witness ==
    /\ out[1].in.type = "Offer"
    /\ Len(out[1].st0.pending_candidates) = 2
    /\ out[1].st0.pending_candidates[1] # out[1].st0.pending_candidates[2]
    /\ Len(out[1].did) = 5
    /\ out[1].did[5] = Sent("Answer", NoId, 0)
    /\ pending_candidates[1] = << >>

\* C18 as stated: a callback that starts in the playing state with an empty queue
\* outputs only silence and switches to buffering
C18_EmptyAtStartIsSilent ==
    (play_out.branch # "none" /\ ~play_out.buffering0 /\ play_out.buffer0 = << >>) =>
        Silence(play_out.output) /\ buffering

\* C18: a callback in the playing state whose queue is empty once it has taken the
\* packets waiting in the channel outputs only silence and switches to buffering; a
\* callback in the buffering state that then finds fewer than 3840 samples queued
\* outputs only silence and stays buffering; one that finds at least 3840 switches
\* to playing and runs the interpolation loop
C18_UnderrunRebuffers ==
    play_out.branch # "none" =>
        /\ RunsLen(play_out.output) = play_out.n
        /\ (~play_out.buffering0 /\ play_out.queued = << >>) =>
               Silence(play_out.output) /\ buffering /\ play_out.branch = "underrun"
        /\ (play_out.buffering0 /\ RunsLen(play_out.queued) < INITIAL_BUFFER_TARGET) =>
               Silence(play_out.output) /\ buffering /\ play_out.branch = "buffering"
        /\ (play_out.buffering0 /\ RunsLen(play_out.queued) >= INITIAL_BUFFER_TARGET) =>
               ~buffering /\ play_out.branch = "played"
        /\ (~play_out.buffering0 /\ play_out.queued # << >>) =>
               ~buffering /\ play_out.branch = "played"

\* C18 witness: after an underrun and at least one silent callback playback resumed
\* in a callback that found 3840 samples or more
C18_Witness ==
    /\ underruns > 0
    /\ play_out.buffering0 /\ play_out.branch = "played"
    /\ play_out.buffer0 # << >>
    /\ RunsLen(play_out.queued) >= INITIAL_BUFFER_TARGET
    /\ ~Silence(play_out.output)

\* C19: a session whose running flag has been cleared sends no Join any more: every
\* step of a controller task that sends Join is taken with the flag of its session set
C19_NoJoinAfterLeave ==
    [][\A i \in Inst :
          (out'[i] # out[i] /\ out'[i].in.type = "join") => running_flag[i]]_vars

\* the orders in which the Join and the Welcome of a remote peer may reach a client
ElectionRuns(remote) ==
    LET j == Msg("Join", remote, 0)
        w == Msg("Welcome", remote, 0)
    IN { << j >>, << w >>, << j, w >>, << w, j >> }

\* whether a client that starts a cycle and reads the frames fs sends an Offer
Offers(local, fs) == CountOf(Handle(NoStep.st0, local, fs).did, "send", "Offer") > 0

\* C20: for two peers with distinct ids, whether a peer sends the Offer does not
\* depend on the order in which the Join and the Welcome of the other reach it,
\* exactly one of the two is the peer that offers, and a peer that has sent an Offer
\* in a run is that peer
C20_ElectionIgnoresOrder ==
    \A i, j \in Peers :
        i # j =>
            LET a == local_client_id[i]
                b == local_client_id[j]
            IN  /\ \A f, g \in ElectionRuns(b) : Offers(a, f) <=> Offers(a, g)
                /\ \A f \in ElectionRuns(b), g \in ElectionRuns(a) :
                       Offers(a, f) <=> ~Offers(b, g)
                /\ offers_sent[i] > 0 => Offers(a, << Msg("Join", b, 0) >>)

\* C20 witness: the greater peer sent its Offer on the Join of the smaller one and has
\* now handled the Welcome of that peer without a second Offer
C20_Witness ==
    \E i, j \in Peers :
        /\ StrGreater(local_client_id[j], local_client_id[i])
        /\ out[j].in = Msg("Welcome", local_client_id[i], 0)
        /\ out[j].st0.did_offer
        /\ CountOf(out[j].did, "send", "Offer") = 0
        /\ offers_sent[j] = 1 /\ offers_sent[i] = 0

(* ================= properties of the cycles of a controller ============= *)
\* C21: a controller task has at most one peer connection that is not closed, the one
\* of its current cycle; whenever the task is at the top of its reconnection loop,
\* about to create a peer connection, or has ended, every peer connection it created
\* is closed; and a peer connection is closed by a close() call of the task
C21_ClosedBeforeNext ==
    \A i \in Inst :
        /\ open_pcs[i] \subseteq {cycle[i]}
        /\ pc[i] \in {"top", "create", "new_fail_sleep", "drain_sleep", "retry_sleep",
                      "done"} => open_pcs[i] = {}
        /\ (out[i].in.type \in {"teardown", "wake"} /\ out[i].did # << >>) =>
               /\ out[i].did = << Call("close", cycle[i], TRUE) >>
               /\ open_pcs[i] = {}

\* C21 witness: the first cycle ended by a failed signaling connect, its peer
\* connection was closed, and the task has created the peer connection of cycle two
C21_Witness ==
    /\ cycle[1] = 2 /\ open_pcs[1] = {2}
    /\ out[1].in = Frame("create")
    /\ ~ws_open[1] /\ rx_count[1] = 0

(* ========================= properties of the VAD ======================== *)
\* a frame of 1920 samples whose RMS equals the threshold
QuietFrame == << << VAD_THRESHOLD, frame_len >> >>

\* the capture state after k more frames at the threshold, emit and encode succeeding
RECURSIVE AfterQuiet(_, _)
AfterQuiet(c, k) ==
    IF k = 0 THEN c
    ELSE AfterQuiet(OneFrame([c EXCEPT !.buffer = QuietFrame], TRUE, TRUE), k - 1)

\* whether the k-th of these frames is treated as talking: was_talking stays true
\* and the frame is encoded and queued
TalkingAt(k) ==
    /\ AfterQuiet(CaptureState, k).was_talking
    /\ Len(AfterQuiet(CaptureState, k).pkts) = Len(AfterQuiet(CaptureState, k - 1).pkts) + 1

\* the last frame the callback processed was above the threshold
JustActive ==
    /\ cap_out.k = "callback" /\ cap_out.flag /\ ~cap_out.muted
    /\ was_talking /\ vad_hangover_frames = VAD_HANGOVER

C23_PacketIffTalking ==
    (cap_out.k = "callback" /\ cap_out.flag /\ ~cap_out.muted) =>
        /\ Len(cap_out.pkts) = cap_out.talking - cap_out.enc_errors
        /\ cap_out.talking <= cap_out.frames
        /\ RunsLen(cap_buffer) = cap_out.avail - cap_out.frames * frame_len
        /\ RunsLen(cap_buffer) < frame_len
        /\ cap_out.frames = cap_out.avail \div frame_len

\* C23 witness: a callback processed two frames, encoded the first and dropped the
\* second as not talking, and left a rest in the buffer
C23_Witness ==
    /\ cap_out.k = "callback" /\ cap_out.flag /\ ~cap_out.muted
    /\ cap_out.frames = 2 /\ cap_out.talking = 1 /\ cap_out.pkts = << "opus" >>
    /\ ~was_talking
    /\ cap_buffer # << >>

\* C24: every is_talking transition of a callback, reported by a voice-activity emit,
\* is also put on the channel to the signaling sender, in the same order
C24_EveryTransitionSent ==
    (cap_out.k = "callback" /\ cap_out.flag) => cap_out.vads = cap_out.emits

(* =================== properties of the ends of a cycle ================== *)
\* C25: when the next thing the socket of a task in its signaling loop yields is a
\* Close frame, a read error or the end of the stream, the task eventually leaves
\* the loop to tear the cycle down
C25_SocketEndResets ==
    (pc[1] = "select" /\ inbox[1] # << >>
        /\ Head(inbox[1]).type \in {"Close", "Error", "End"}) ~> (pc[1] = "teardown")

(* ================= properties of the signaling handlers ================= *)
\* whether the step of task i wrote a Welcome with its own client id
WelcomeSent(i) ==
    \E k \in 1..Len(out[i].did) : out[i].did[k] = Sent("Welcome", local_client_id[i], 0)

\* C26 as stated: a step that handles a Join or a Welcome of another client sends a
\* Welcome with the local client id
C26_WelcomeOnJoinOrWelcome ==
    \A i \in Inst :
        (out[i].in.type \in {"Join", "Welcome"}
            /\ out[i].in.client_id # local_client_id[i]) => WelcomeSent(i)

\* C26: a step that handles a Join of another client sends exactly one Welcome with
\* the local client id, right after the peer-joined emit and before any Offer; a step
\* that handles a Welcome sends no Welcome
C26_WelcomeOnJoinOnly ==
    \A i \in Inst :
        /\ (out[i].in.type = "Join" /\ out[i].in.client_id # local_client_id[i]) =>
               /\ Len(out[i].did) >= 2
               /\ out[i].did[2] = Sent("Welcome", local_client_id[i], 0)
               /\ CountOf(out[i].did, "send", "Welcome") = 1
        /\ out[i].in.type = "Welcome" => CountOf(out[i].did, "send", "Welcome") = 0

\* C26 witness: the Join of a smaller client was answered by a Welcome and an Offer
C26_Witness ==
    /\ out[1].in = Msg("Join", <<1, 5>>, 0)
    /\ WelcomeSent(1)
    /\ CountOf(out[1].did, "send", "Offer") = 1

\* C27: once a task has handled a Join, a Welcome or a Ping of a remote id, the peer
\* table of the cycle holds a record for that id
C27_RecordFromFirstContact ==
    \A i \in Inst :
        (out[i].in.type \in {"Join", "Welcome", "Ping"}
            /\ out[i].in.client_id # local_client_id[i]) =>
                out[i].in.client_id \in DOMAIN peer_last_ping[i]

\* C28: a step in which create_offer, create_answer or set_remote_description
\* returned an error ends the cycle: the task leaves the signaling loop for the
\* teardown
C28_SdpFailureEndsCycle ==
    \A i \in Inst :
        (\E k \in 1..Len(out[i].did) :
            /\ out[i].did[k].k = "call" /\ ~out[i].did[k].ok
            /\ out[i].did[k].n \in {"create_offer", "create_answer",
                                    "set_remote_description"})
            => pc[i] = "teardown"

\* C29: in a session at most one capture thread holds a stream whose cycle flag is
\* set, and it is the capture of the current peer connection
C29_OneCapturePerSession ==
    \A i \in Inst : (capture_threads[i] \cap cycle_flags[i]) \subseteq {cycle[i]}

(* ================== properties of a session that is left ================ *)
\* C30: an input callback that runs while the running flag of the session is clear
\* appends nothing to the accumulation buffer, emits no voice-activity event and
\* queues no packet
C30_NoProcessingAfterLeave ==
    [][(cap_out' # cap_out /\ cap_out'.k = "callback" /\ ~running_flag[1]) =>
          /\ cap_buffer' = cap_buffer
          /\ cap_out'.emits = << >>
          /\ cap_out'.pkts = << >>
          /\ tx' = tx]_vars

(* ================== properties of the last ten claims =================== *)
\* C31: a Join, Welcome, Ping or Leave that carries the local client id is ignored:
\* the step emits no event, sends no frame, adds no record to the peer table and
\* sets no reset
C31_SelfEchoIgnored ==
    \A i \in Inst :
        (out[i].in.type \in {"Join", "Welcome", "Ping", "Leave"}
            /\ out[i].in.client_id = local_client_id[i]) =>
                /\ out[i].did = << >>
                /\ peer_last_ping[i] = out[i].st0.peer_last_ping
                /\ should_reset_pc[i] = out[i].st0.should_reset_pc

\* C32: in one signaling cycle a task sends at most one Offer, whatever Join and
\* Welcome frames of smaller ids it reads, and a step sends an Answer only when it
\* handled an Offer and began with a set_remote_description that succeeded
C32_OneOfferPerCycle ==
    \A i \in Inst :
        /\ offers_sent[i] <= 1
        /\ CountOf(out[i].did, "send", "Offer") > 0 =>
              out[i].in.type \in {"Join", "Welcome"} /\ ~out[i].st0.did_offer
        /\ CountOf(out[i].did, "send", "Answer") > 0 =>
              /\ out[i].in.type = "Offer"
              /\ out[i].did[1] = Call("set_remote_description", 1, TRUE)
              /\ CountOf(out[i].did, "send", "Answer") = 1

\* C32 witness: a task that has sent its Offer handles one more Join of a smaller id
\* and sends no second Offer
C32_Witness ==
    /\ out[1].in = Msg("Join", <<1, 5>>, 0)
    /\ out[1].st0.did_offer
    /\ offers_sent[1] = 1
    /\ CountOf(out[1].did, "send", "Offer") = 0
    /\ WelcomeSent(1)

\* C33: whenever remote_description_set is true the pending candidate list is
\* empty, and a step that appends a candidate to the list began with no remote
\* description set in the cycle
C33_NoPendingOnceSet ==
    \A i \in Inst :
        /\ remote_description_set[i] => pending_candidates[i] = << >>
        /\ (out[i].in.type \in SignalTypes
              /\ Len(pending_candidates[i]) > Len(out[i].st0.pending_candidates)) =>
                  /\ out[i].in.type = "IceCandidate"
                  /\ ~out[i].st0.remote_description_set
                  /\ ~remote_description_set[i]

\* C33 witness: an Answer set the remote description of a cycle that had buffered
\* two candidates, and the list is empty
C33_Witness ==
    /\ out[1].in.type = "Answer"
    /\ Len(out[1].st0.pending_candidates) = 2
    /\ remote_description_set[1]
    /\ pending_candidates[1] = << >>

\* C34: a step whose set_remote_description failed, for an Offer or an Answer, does
\* nothing else: the variables of the cycle are as before, no candidate is applied,
\* no Answer is sent, and the task is back in the signaling loop, which it leaves
\* only when its running flag is clear
C34_FailedDescriptionChangesNothing ==
    \A i \in Inst :
        (out[i].did # << >> /\ out[i].did[1].n = "set_remote_description"
            /\ ~out[i].did[1].ok) =>
                /\ out[i].in.type \in {"Offer", "Answer"}
                /\ Len(out[i].did) = 1
                /\ LoopState(i) = out[i].st0
                /\ pc[i] \in {"select", "teardown"}
                /\ pc[i] = "teardown" => ~running_flag[i]

\* C34 witness: set_remote_description failed for an Offer while a candidate was
\* buffered; the candidate is still buffered and the task waits in the loop
C34_Witness ==
    /\ out[1].in.type = "Offer"
    /\ out[1].did = << Call("set_remote_description", 1, FALSE) >>
    /\ pending_candidates[1] # << >>
    /\ ~remote_description_set[1]
    /\ pc[1] = "select"

\* C35: a step emits peer-left for a remote id only if peer-joined was emitted for
\* that id before and no peer-left for it since, be the step the handling of a Leave
\* or the timeout scan
C35_LeftOnlyAfterJoined ==
    [][\A i \in Inst :
          out'[i] # out[i] =>
              \A k \in 1..Len(out'[i].did) :
                  (out'[i].did[k].k = "emit" /\ out'[i].did[k].n = "peer-left")
                      => out'[i].did[k].a \in present[i]]_vars

\* C36: whatever join_conference and leave_conference calls run side by side, a
\* session whose running flag is set is the session held in the active-session slot
C36_RunningIsInSlot ==
    \A i \in Inst : running_flag[i] => active_session = i

\* C37: a negotiated task of the greater id (it has sent its Offer and set the Answer
\* as remote description) that stays in its cycle and handles the Join by which the
\* smaller peer announces itself again after a reset of its own sends a new Offer
C37_RejoinIsOffered ==
    \A i \in Inst :
        (out[i].in.type = "Join"
            /\ StrGreater(local_client_id[i], out[i].in.client_id)
            /\ out[i].st0.did_offer /\ out[i].st0.remote_desc) =>
                CountOf(out[i].did, "send", "Offer") = 1

\* C38: a step of a task sends one Welcome when the frame it handled is a Join and
\* none otherwise, in particular none when it handled a Welcome: the Welcomes a task
\* sends in a cycle are as many as the Joins it handled, and a Welcome is never
\* answered
C38_WelcomeOnlyForJoin ==
    \A i \in Inst :
        CountOf(out[i].did, "send", "Welcome") =
            (IF out[i].in.type = "Join" THEN 1 ELSE 0)

\* C38 witness: of two peers of a room one has replied Welcome to the Join of the
\* other, and the other has handled that Welcome without sending a Welcome back
C38_Witness ==
    \E i, j \in Peers :
        /\ out[i].in = Msg("Join", local_client_id[j], 0)
        /\ CountOf(out[i].did, "send", "Welcome") = 1
        /\ out[j].in = Msg("Welcome", local_client_id[i], 0)
        /\ CountOf(out[j].did, "send", "Welcome") = 0

(* ==================== properties of the end of a capture ================ *)
\* C39: a capture that has emitted voice-activity true emits false before it falls
\* silent: once an input callback has run with the flag of the capture cleared, the
\* last transition the capture generated is false
C39_TrueIsFollowedByFalse ==
    (cap_out.k = "callback" /\ ~cap_out.flag) => ~was_talking

\* C40: a callback that runs with mute clear, finds the capture not talking (as it
\* is after a mute) and the buffer empty, and brings only frames at or below the
\* threshold (the hangover counter is below VAD_HANGOVER after it) emits no
\* voice-activity and queues no packet, whatever the counter was when mute was set
C40_QuietAfterMuteStaysQuiet ==
    (cap_out.k = "callback" /\ cap_out.flag /\ ~cap_out.muted
        /\ ~cap_out.was0 /\ ~cap_out.had /\ cap_out.frames >= 1
        /\ vad_hangover_frames < VAD_HANGOVER) =>
            /\ cap_out.emits = << >>
            /\ cap_out.pkts = << >>

====
